---------------------------- MODULE Spec2Model ----------------------------
(***************************************************************************)
(* A model of the boop audio library: the additive Mixer (src/mixer.rs),   *)
(* the OutputStream callback and its mutex-guarded source list             *)
(* (src/stream.rs) and the polyphase Resampler (src/resampler.rs).         *)
(*                                                                         *)
(* Samples are integers: every f32 operation the modelled code performs on *)
(* them is an addition or an assignment, and the values used are small     *)
(* enough for f32 to represent every sum exactly.                          *)
(***************************************************************************)
EXTENDS Integers, Sequences, FiniteSets, TLC

(***************************************************************************)
(* Bounds of the model.                                                    *)
(***************************************************************************)
\* add_source calls made on a Mixer in one run
MaxAdds == 3
\* add_source calls made in a run checked for liveness
MaxLiveAdds == 2
\* client threads calling OutputStream::add_source
MaxClients == 2
\* add_source calls made on an OutputStream in one run
MaxStreamAdds == 2
\* callbacks the device makes in one run
MaxCallbacks == 2
\* most frames the device asks for in one callback
MaxCbFrames == 2
\* most samples in the data chunk of a WAV file given to WavPlayer::new
MaxWavSamples == 4
\* most samples a caller asks of the WavPlayer in one pull
MaxWavPull == 3
\* most frames a caller asks of the Resampler in one pull
MaxPull == 3
\* a Resampler's child holds at most about this many filter buffers of samples
MaxWindows == 3
\* most frames a caller asks of the Mixer in one pull
MaxFrames == 2
\* most samples a finite child of the Mixer holds
MaxLen == 3


VARIABLES
    \* ---- Mixer (src/mixer.rs) ----
    channels,       \* Mixer.channels
    sources,        \* Mixer.sources: the children, in list order
    input_buffer,   \* Mixer.input_buffer: the scratch buffer, kept across pulls
    buffer,         \* the caller's buffer as the last write_samples left it
    ret,            \* what the last write_samples returned (NoRet: nothing yet)
    panicked,       \* write_samples reached todo!() and unwound
    \* ---- history of the Mixer run (not program state) ----
    added,          \* how many add_source calls were made: the next child is added + 1
    calls,          \* child write_samples calls of the last pull, in call order
    short,          \* ids of the children that have returned k < request
    shortBefore,    \* `short` as it was when the last pull began
    \* ---- OutputStream (src/stream.rs) ----
    device_channels,\* channel_count of the device configuration
    s_sources,      \* the Vec<ActiveSource> inside the Arc<Mutex<..>>
    locked,         \* the mutex is held
    poisoned,       \* a thread unwound while holding the mutex
    data,           \* the device buffer of the callback in progress
    cb,             \* the audio thread: [pc, chunk]: where the callback is
    client,         \* per client thread: [pc, src]: where its add_source is
    \* ---- history of the OutputStream run (not program state) ----
    s_added,        \* add_source calls begun so far
    s_callbacks,    \* callbacks begun so far
    pushed,         \* ids whose push was executed
    returned,       \* ids whose add_source has returned
    pruned,         \* ids the callback's retain_mut dropped
    firstIdx,       \* per id: the index of the first sample of it mixed (or NoRet)
    atLock,         \* at the callback's lock(): [due, seen]: the ids that were
                    \* returned and not pruned, and the ids in the list
    \* ---- Resampler (src/resampler.rs) ----
    r_state,        \* "unbuilt", "built", or where a panic unwound: "new_panicked",
                    \* "pull_panicked"
    source,         \* Resampler.source: the child, [ch, len, pos]
    from,           \* Resampler.from
    to,             \* Resampler.to
    left_offset,    \* Resampler.left_offset
    kaiser_count,   \* kaiser_values.len()
    filter_1,       \* Resampler.filter_1: per position the index of the child
    filter_2,       \* sample it holds (Uninit: never written)
    whole_filter_size, \* Resampler.whole_filter_size
    buffer_size,    \* Resampler.buffer_size
    input_offset,   \* Resampler.input_offset
    output_count,   \* Resampler.output_count
    last_sample,    \* Resampler.last_sample (None: NoRet)
    \* ---- history of the Resampler run (not program state) ----
    r_arg,          \* the arguments of new: [ch, source_rate, dest_rate]
    r_child_calls,  \* write_samples calls made on the child so far
    r_req,          \* buffer.len() of the last write_samples
    r_ret,          \* what the last write_samples returned
    r_short,        \* an earlier write_samples returned less than buffer.len()
    r_fault,        \* why write_samples unwound ("" if it did not)
    r_conv_max,     \* greatest sample_index convolved so far (NoRet: none)
    r_out,          \* what the last write_samples wrote into its buffer: for each
                    \* sample what its sum was taken over (ConvolveArgs); Convolve
                    \* gives the terms of the sum
    \* ---- WavPlayer (src/source/wav.rs) ----
    w_result,       \* what WavPlayer::new returned: "none" before the call, "Ok",
                    \* "InvalidFile", "MalformedData", "UnknownFormat" or "panic"
    file,           \* WavPlayer.file (bytes, 0..255)
    w_channels,     \* WavPlayer.channels
    sample_bytes,   \* WavPlayer.sample_bytes
    next_sample_offset, \* WavPlayer.next_sample_offset
    format,         \* WavPlayer.format
    length,         \* WavPlayer.length
    \* ---- history of the WavPlayer run (not program state) ----
    w_blob,         \* the bytes given to new
    w_signal,       \* the integer samples the data chunk was encoded from
    w_out,          \* every sample written so far, in order
    w_req,          \* buffer.len() of the last write_samples
    w_ret,          \* what the last write_samples returned
    w_short,        \* an earlier write_samples returned less than buffer.len()
    \* ---- OutputStream::new (src/stream.rs) ----
    o_result,       \* what OutputStream::new returned ("none" before the call)
    o_format,       \* sample_format of the configuration chosen ("none": not reached)
    o_installed,    \* the callback handed to build_output_stream ("none": not reached)
    o_playing,      \* the stream was built, started and returned to the caller
    o_todo          \* the device invoked a callback that is todo!()

mixerVars == <<channels, sources, input_buffer, buffer, ret, panicked,
               added, calls, short, shortBefore>>

streamVars == <<device_channels, s_sources, locked, poisoned, data, cb, client,
                s_added, s_callbacks, pushed, returned, pruned, firstIdx, atLock>>

rsVars == <<r_state, source, from, to, left_offset, kaiser_count, filter_1, filter_2,
            whole_filter_size, buffer_size, input_offset, output_count, last_sample,
            r_arg, r_child_calls, r_req, r_ret, r_short, r_fault, r_conv_max, r_out>>

wavVars == <<w_result, file, w_channels, sample_bytes, next_sample_offset, format, length,
             w_blob, w_signal, w_out, w_req, w_ret, w_short>>

devVars == <<o_result, o_format, o_installed, o_playing, o_todo>>

vars == <<mixerVars, streamVars, rsVars, wavVars, devVars>>

(***************************************************************************)
(* Small helpers.                                                          *)
(***************************************************************************)
Min(a, b) == IF a < b THEN a ELSE b

RECURSIVE SumSeq(_)
SumSeq(s) == IF s = <<>> THEN 0 ELSE Head(s) + SumSeq(Tail(s))

Ids(list) == {list[i].id : i \in DOMAIN list}

\* The element of a one-element set: Only({F(x) : x \in {e}}) is F(e) with
\* e computed once.
Only(S) == CHOOSE x \in S : TRUE

\* A function on 1..n as the sequence of its values (its elements computed
\* once, here, rather than at every later use).
Tuple(f) == SubSeq(f, 1, Cardinality(DOMAIN f))

\* A marker for "no value": never a return value nor a sample.
NoRet == 0 - 1
\* What an endless source has for a length.
Endless == 0 - 1
\* What the caller's buffer may hold before a pull besides silence.
Garbage == 0 - 1000

(***************************************************************************)
(* The Source contract (src/mixer.rs, trait use at lines 37-39): a child   *)
(* has a constant channel count and a cursor; write_samples writes the     *)
(* next min(request, remaining) samples and returns that count.            *)
(* Child `id` holds the samples Sample(id, 0), Sample(id, 1), ...: one     *)
(* decimal digit per child, so that a sum shows who contributed what.      *)
(***************************************************************************)
RECURSIVE Pow10(_)
Pow10(n) == IF n = 0 THEN 1 ELSE 10 * Pow10(n - 1)

\* An endless source repeats with this period.
Period == MaxLen

Sample(id, idx) == Pow10(id - 1) * (1 + (idx % Period))

Remaining(src) == IF src.len = Endless THEN Endless ELSE src.len - src.pos

\* The count a child returns for a request of `req` samples.
SourceCount(src, req) ==
    IF src.len = Endless THEN req ELSE Min(req, src.len - src.pos)

\* The child after that call: its cursor advanced by the count (an endless
\* child's cursor is kept as its phase within the period).
SourceAdvance(src, req) ==
    IF src.len = Endless
    THEN [src EXCEPT !.pos = (@ + SourceCount(src, req)) % Period]
    ELSE [src EXCEPT !.pos = @ + SourceCount(src, req)]

\* The scratch buffer after the child wrote into it: the first `count`
\* positions hold the child's next samples, the rest are untouched.
SourceFill(src, buf) ==
    LET count == SourceCount(src, Len(buf))
    IN  Tuple([i \in 1..Len(buf) |->
                 IF i <= count THEN Sample(src.id, src.pos + i - 1) ELSE buf[i]])

(***************************************************************************)
(* Vec::resize_with(n, Default::default): truncate, or extend with 0.0.    *)
(***************************************************************************)
resize_with(v, n) == Tuple([i \in 1..n |-> IF i <= Len(v) THEN v[i] ELSE 0])

(***************************************************************************)
(* The closure Mixer::write_samples hands to retain_mut, applied to one    *)
(* child.  `st` carries what the closure captures by mutable reference:    *)
(* the caller's buffer (buf) and the scratch buffer (inbuf).  The result   *)
(* adds the child as the call left it, the closure's verdict (keep), and   *)
(* whether it reached todo!().                                             *)
(***************************************************************************)
\* mixer.rs:43-45: equal channel counts: add sample for sample.
PassThrough(buf, inbuf, count) ==
    Tuple([i \in 1..Len(buf) |-> IF i <= count THEN buf[i] + inbuf[i] ELSE buf[i]])

\* mixer.rs:48-52: a 1-channel child: every sample of output frame f is
\* assigned (`*s = in_sample`) the child's f-th sample.
Duplicate(buf, inbuf, count, occ) ==
    Tuple([i \in 1..Len(buf) |->
             LET f == (i - 1) \div occ
             IN  IF f < Min(count, Len(buf) \div occ) THEN inbuf[f + 1] ELSE buf[i]])

\* A closure that keeps every child, exhausted or not.
KeepAlways(count, requested) == TRUE

\* mixer.rs:58: the closure's verdict: keep the child iff it filled the request.
Keep(count, requested) == count = requested

\* The three branches of the closure (mixer.rs:41-56) and its verdict, given
\* the scratch buffer as the child's write_samples left it.
MixBranch(src, buf, inbuf2, count, occ) ==
    LET scc  == src.ch
        src2 == SourceAdvance(src, Len(inbuf2))
        call == [id |-> src.id, ch |-> scc, start |-> src.pos,
                 req |-> Len(inbuf2), count |-> count]
    IN  IF scc = occ
        THEN [src |-> src2, buf |-> PassThrough(buf, inbuf2, count), inbuf |-> inbuf2,
              keep |-> Keep(count, Len(inbuf2)), panic |-> FALSE, call |-> call]
        ELSE IF scc = 1
        THEN [src |-> src2, buf |-> Duplicate(buf, inbuf2, count, occ), inbuf |-> inbuf2,
              keep |-> Keep(count, Len(inbuf2)), panic |-> FALSE, call |-> call]
        ELSE [src |-> src2, buf |-> buf, inbuf |-> inbuf2,
              keep |-> FALSE, panic |-> TRUE, call |-> call]

\* mixer.rs:37-39: resize the scratch buffer to the same number of frames
\* in the child's channel count (MixClosure), and have the child write into
\* it (MixCall).
MixCall(src, buf, inbuf1, occ) ==
    Only({MixBranch(src, buf, inbuf2, SourceCount(src, Len(inbuf2)), occ) :
            inbuf2 \in {SourceFill(src, inbuf1)}})

\* A variant that asks every child for as many samples as the output has.
RequestSizeOutput(len, scc, occ) == len

\* mixer.rs:38: the length the scratch buffer is resized to.
RequestSize(len, scc, occ) == (len * scc) \div occ

MixClosure(src, buf, inbuf, occ) ==
    Only({MixCall(src, buf, inbuf1, occ) :
            inbuf1 \in {resize_with(inbuf, RequestSize(Len(buf), src.ch, occ))}})

(***************************************************************************)
(* RetainMut::retain_mut (mixer.rs:73-92) with that closure: visit v[i]    *)
(* for i in 0..len, count the rejected in del, swap a kept element down by *)
(* del, truncate at the end.  A panic of the closure unwinds out of the    *)
(* loop: no later child is visited and the list is not truncated.          *)
(***************************************************************************)
\* A variant that leaves the elements where they are.
SwapNone(v, a, b) == v

Swap(v, a, b) == [v EXCEPT ![a] = v[b], ![b] = v[a]]

truncate(v, n) == IF n < Len(v) THEN SubSeq(v, 1, n) ELSE v

\* mixer.rs:81-85: one iteration of the loop, r being what f(&mut v[i]) did.
RetainStep(st, i, r) ==
    LET v1   == [st.v EXCEPT ![i] = r.src]
        base == [st EXCEPT !.buf = r.buf, !.inbuf = r.inbuf,
                           !.calls = Append(@, r.call)]
    IN  IF r.panic THEN [base EXCEPT !.v = v1, !.panic = TRUE]
        ELSE IF ~r.keep THEN [base EXCEPT !.v = v1, !.del = @ + 1]
        ELSE IF st.del > 0 THEN [base EXCEPT !.v = Swap(v1, i - st.del, i)]
        ELSE [base EXCEPT !.v = v1]

RetainVisit(st, i, occ) ==
    Only({RetainStep(st, i, r) : r \in {MixClosure(st.v[i], st.buf, st.inbuf, occ)}})

RECURSIVE RetainLoop(_, _, _, _)
RetainLoop(st, i, len, occ) ==
    IF i > len \/ st.panic THEN st
    ELSE Only({RetainLoop(nx, i + 1, len, occ) : nx \in {RetainVisit(st, i, occ)}})

\* mixer.rs:88-90: drop the rejected, which the swaps left at the tail.
RetainEnd(st, len) ==
    IF st.panic THEN st
    ELSE IF st.del > 0 THEN [st EXCEPT !.v = truncate(st.v, len - st.del)]
    ELSE st

retain_mut(v, buf, inbuf, occ) ==
    Only({RetainEnd(st, Len(v)) :
            st \in {RetainLoop([v |-> v, del |-> 0, buf |-> buf, inbuf |-> inbuf,
                                panic |-> FALSE, calls |-> <<>>], 1, Len(v), occ)}})

(***************************************************************************)
(* Mixer::new (mixer.rs:18-20).                                            *)
(***************************************************************************)
MixerChannels == {2}

SourceLens == {MaxLen, Endless}

\* The children a client may add: a supported one of either length, or one
\* whose channel count the Mixer does not handle (its length plays no part:
\* the first pull that meets it unwinds).
SourceKinds ==
    {[ch |-> c, len |-> l] : c \in {1, 2}, l \in SourceLens}
        \cup {[ch |-> 3, len |-> Endless]}

Mixer_new ==
    /\ channels \in MixerChannels
    /\ sources = <<>>
    /\ input_buffer = <<>>
    /\ buffer = <<>>
    /\ ret = NoRet
    /\ panicked = FALSE
    /\ added = 0
    /\ calls = <<>>
    /\ short = {}
    /\ shortBefore = {}

(***************************************************************************)
(* Mixer::add_source (mixer.rs:24-26): push the child at the end.          *)
(***************************************************************************)
Push(v, x) == Append(v, x)

Mixer_add_source(ch, len) ==
    /\ ~panicked
    /\ added' = added + 1
    /\ sources' = Push(sources, [id |-> added + 1, ch |-> ch, len |-> len, pos |-> 0])
    /\ UNCHANGED <<channels, input_buffer, buffer, ret, panicked,
                   calls, short, shortBefore>>

(***************************************************************************)
(* Mixer::write_samples (mixer.rs:30-62) on a caller's buffer `buf` of     *)
(* whole frames: zero it, run retain_mut over the children, return         *)
(* buffer.len().                                                           *)
(***************************************************************************)
\* A write_samples that mixes into the buffer as the caller passed it.
NotZeroed(buf) == buf

\* mixer.rs:34: every sample of the caller's buffer set to 0.0.
Zeroed(buf) == Tuple([i \in 1..Len(buf) |-> 0])

ReturnValue(buf) == Len(buf)

Mixer_write_samples(buf) ==
    \E st \in {retain_mut(sources, Zeroed(buf), input_buffer, channels)} :
        /\ ~panicked
        /\ sources' = st.v
        /\ input_buffer' = st.inbuf
        /\ buffer' = st.buf
        /\ panicked' = st.panic
        /\ ret' = IF st.panic THEN NoRet ELSE ReturnValue(buf)
        /\ calls' = st.calls
        /\ shortBefore' = short
        /\ short' = short \cup {st.calls[i].id : i \in
                                  {j \in DOMAIN st.calls : st.calls[j].count < st.calls[j].req}}
        /\ UNCHANGED <<channels, added>>

\* The buffers a caller may pass: n whole frames of whatever was there before.
CallerBuffers ==
    {Tuple([i \in 1..(n * channels) |-> Garbage]) : n \in 0..MaxFrames}

MixerNext ==
    \/ \E k \in SourceKinds : added < MaxAdds /\ Mixer_add_source(k.ch, k.len)
    \/ \E buf \in CallerBuffers : Mixer_write_samples(buf)

\* The same operations with one more add_source call, made once a child has
\* been pruned and the list has room again.
MixerLongNext ==
    \/ \E k \in SourceKinds :
        /\ added < MaxAdds + 1
        /\ Len(sources) < MaxAdds
        /\ Mixer_add_source(k.ch, k.len)
    \/ \E buf \in CallerBuffers : Mixer_write_samples(buf)

\* The same operations with fewer add_source calls, for the liveness check.
MixerLiveNext ==
    \/ \E k \in SourceKinds : added < MaxLiveAdds /\ Mixer_add_source(k.ch, k.len)
    \/ \E buf \in CallerBuffers : Mixer_write_samples(buf)

(***************************************************************************)
(* OutputStream (src/stream.rs).  The source list lives in an              *)
(* Arc<Mutex<Vec<ActiveSource>>> shared by the audio thread, which runs    *)
(* the write_f32 callback, and the client threads, which call add_source.  *)
(* A source here answers get_sample(index) (src/source.rs:7): Some for     *)
(* index < len, None past the end.                                         *)
(***************************************************************************)
Clients == 1..MaxClients

StreamIds == 1..MaxStreamAdds

\* A lock() that does not wait for the mutex.
CanLockAlways == TRUE

\* Mutex::lock blocks until the mutex is free.
CanLock == ~locked

\* source.get_sample(index) is Some.
HasSample(src, index) == src.len = Endless \/ index < src.len

\* stream.rs:73-83: equal channel counts: per output sample of the frame,
\* add the next sample, or stop and reject the source at the first None.
\* Returns the source, the frame, and the closure's verdict.
RECURSIVE FrameEqual(_, _, _)
FrameEqual(src, frame, j) ==
    IF j > Len(frame) THEN [src |-> src, frame |-> frame, keep |-> TRUE, panic |-> FALSE]
    ELSE IF HasSample(src, src.sample_index)
    THEN FrameEqual([src EXCEPT !.sample_index = @ + 1],
                    [frame EXCEPT ![j] = @ + Sample(src.id, src.sample_index)], j + 1)
    ELSE [src |-> src, frame |-> frame, keep |-> FALSE, panic |-> FALSE]

\* stream.rs:84-94: a 1-channel source: add its next sample to every
\* channel of the frame, or reject it at None.
FrameMono(src, frame) ==
    IF HasSample(src, src.sample_index)
    THEN [src |-> [src EXCEPT !.sample_index = @ + 1],
          frame |-> Tuple([j \in 1..Len(frame) |-> frame[j] + Sample(src.id, src.sample_index)]),
          keep |-> TRUE, panic |-> FALSE]
    ELSE [src |-> src, frame |-> frame, keep |-> FALSE, panic |-> FALSE]

\* stream.rs:70-99: the closure given to retain_mut, for one source and one
\* output frame.
StreamClosure(src, frame, occ) ==
    IF src.ch = occ THEN FrameEqual(src, frame, 1)
    ELSE IF src.ch = 1 THEN FrameMono(src, frame)
    ELSE [src |-> src, frame |-> frame, keep |-> FALSE, panic |-> TRUE]

\* stream.rs:138-160: retain_mut, as in mixer.rs.
StreamRetainStep(st, i, r) ==
    LET v1   == [st.v EXCEPT ![i] = r.src]
        base == [st EXCEPT !.frame = r.frame, !.visited = @ \cup {st.v[i].id},
                           !.first = IF st.v[i].sample_index < r.src.sample_index
                                        /\ @[st.v[i].id] = NoRet
                                     THEN [@ EXCEPT ![st.v[i].id] = st.v[i].sample_index]
                                     ELSE @]
    IN  IF r.panic THEN [base EXCEPT !.v = v1, !.panic = TRUE]
        ELSE IF ~r.keep THEN [base EXCEPT !.v = v1, !.del = @ + 1,
                                          !.dropped = @ \cup {st.v[i].id}]
        ELSE IF st.del > 0 THEN [base EXCEPT !.v = Swap(v1, i - st.del, i)]
        ELSE [base EXCEPT !.v = v1]

RECURSIVE StreamRetainLoop(_, _, _, _)
StreamRetainLoop(st, i, len, occ) ==
    IF i > len \/ st.panic THEN st
    ELSE Only({StreamRetainLoop(nx, i + 1, len, occ) :
                 nx \in {Only({StreamRetainStep(st, i, r) :
                                 r \in {StreamClosure(st.v[i], st.frame, occ)}})}})

stream_retain_mut(v, frame, first, occ) ==
    Only({RetainEnd(st, Len(v)) :
            st \in {StreamRetainLoop([v |-> v, del |-> 0, frame |-> frame, panic |-> FALSE,
                                      visited |-> {}, dropped |-> {}, first |-> first],
                                     1, Len(v), occ)}})

\* OutputStream::new (stream.rs:52-53, 56, 128): an empty list behind a free
\* mutex, the device's channel count, no callback running.
DeviceChannels == {2}

OutputStream_new ==
    /\ device_channels \in DeviceChannels
    /\ s_sources = <<>>
    /\ locked = FALSE
    /\ poisoned = FALSE
    /\ data = <<>>
    /\ cb = [pc |-> "idle", chunk |-> 0]
    /\ client = [c \in Clients |-> [pc |-> "idle", src |-> NoRet]]
    /\ s_added = 0
    /\ s_callbacks = 0
    /\ pushed = {}
    /\ returned = {}
    /\ pruned = {}
    /\ firstIdx = [id \in StreamIds |-> NoRet]
    /\ atLock = [due |-> {}, seen |-> {}]

\* ---- OutputStream::add_source (stream.rs:132-135), by client thread c ----

\* The call begins: the thread is about to lock.
AddCall(c, ch, len) ==
    /\ client[c].pc = "idle"
    /\ s_added < MaxStreamAdds
    /\ s_added' = s_added + 1
    /\ client' = [client EXCEPT ![c] =
                    [pc |-> "lock", src |-> [id |-> s_added + 1, ch |-> ch, len |-> len,
                                             sample_index |-> 0]]]
    /\ UNCHANGED <<device_channels, s_sources, locked, poisoned, data, cb,
                   s_callbacks, pushed, returned, pruned, firstIdx, atLock>>

\* stream.rs:133: self.sources.lock().unwrap(): take the mutex once it is
\* free; unwrap panics if it is poisoned.
AddLock(c) ==
    /\ client[c].pc = "lock"
    /\ CanLock
    /\ IF poisoned
       THEN /\ client' = [client EXCEPT ![c].pc = "panicked"]
            /\ UNCHANGED locked
       ELSE /\ client' = [client EXCEPT ![c].pc = "push"]
            /\ locked' = TRUE
    /\ UNCHANGED <<device_channels, s_sources, poisoned, data, cb, s_added,
                   s_callbacks, pushed, returned, pruned, firstIdx, atLock>>

\* stream.rs:134: sources.push(ActiveSource { source, sample_index: 0 }).
AddPush(c) ==
    /\ client[c].pc = "push"
    /\ s_sources' = Push(s_sources, client[c].src)
    /\ pushed' = pushed \cup {client[c].src.id}
    /\ client' = [client EXCEPT ![c].pc = "unlock"]
    /\ UNCHANGED <<device_channels, locked, poisoned, data, cb, s_added,
                   s_callbacks, returned, pruned, firstIdx, atLock>>

\* stream.rs:135: the guard is dropped and add_source returns.
AddReturn(c) ==
    /\ client[c].pc = "unlock"
    /\ locked' = FALSE
    /\ returned' = returned \cup {client[c].src.id}
    /\ client' = [client EXCEPT ![c] = [pc |-> "idle", src |-> NoRet]]
    /\ UNCHANGED <<device_channels, s_sources, poisoned, data, cb, s_added,
                   s_callbacks, pushed, pruned, firstIdx, atLock>>

\* ---- the write_f32 callback (stream.rs:58-101), on the audio thread ----

\* stream.rs:58-62: the device calls with a buffer of n frames; zero it.
CbBegin(n) ==
    /\ cb.pc = "idle"
    /\ s_callbacks < MaxCallbacks
    /\ s_callbacks' = s_callbacks + 1
    /\ data' = Tuple([i \in 1..(n * device_channels) |-> 0])
    /\ cb' = [pc |-> "lock", chunk |-> 0]
    /\ UNCHANGED <<device_channels, s_sources, locked, poisoned, client, s_added,
                   pushed, returned, pruned, firstIdx, atLock>>

\* stream.rs:65: closure_sources.lock().unwrap().
CbLock ==
    /\ cb.pc = "lock"
    /\ CanLock
    /\ IF poisoned
       THEN /\ cb' = [cb EXCEPT !.pc = "panicked"]
            /\ UNCHANGED <<locked, atLock>>
       ELSE /\ cb' = [cb EXCEPT !.pc = "mix"]
            /\ locked' = TRUE
            /\ atLock' = [due |-> returned \ pruned, seen |-> Ids(s_sources)]
    /\ UNCHANGED <<device_channels, s_sources, poisoned, data, client, s_added,
                   s_callbacks, pushed, returned, pruned, firstIdx>>

\* The frame the callback is at, and the buffer with that frame replaced.
Chunk(k) == SubSeq(data, k * device_channels + 1, (k + 1) * device_channels)

WithChunk(k, frame) ==
    Tuple([i \in 1..Len(data) |->
             IF (i - 1) \div device_channels = k
             THEN frame[i - k * device_channels] ELSE data[i]])

\* stream.rs:66-100: one iteration of the loop over the output frames: a
\* retain_mut pass over the list.  If the closure reaches todo!() the
\* thread unwinds: the guard is dropped and the mutex is left poisoned.
CbChunk ==
    /\ cb.pc = "mix"
    /\ cb.chunk < Len(data) \div device_channels
    /\ \E st \in {stream_retain_mut(s_sources, Chunk(cb.chunk), firstIdx, device_channels)} :
        /\ s_sources' = st.v
        /\ data' = WithChunk(cb.chunk, st.frame)
        /\ pruned' = pruned \cup (IF st.panic THEN {} ELSE st.dropped)
        /\ firstIdx' = st.first
        /\ IF st.panic
           THEN /\ cb' = [cb EXCEPT !.pc = "panicked"]
                /\ locked' = FALSE
                /\ poisoned' = TRUE
           ELSE /\ cb' = [cb EXCEPT !.chunk = @ + 1]
                /\ UNCHANGED <<locked, poisoned>>
    /\ UNCHANGED <<device_channels, client, s_added, s_callbacks, pushed, returned, atLock>>

\* stream.rs:101: the closure returns and the guard is dropped.
CbEnd ==
    /\ cb.pc = "mix"
    /\ cb.chunk = Len(data) \div device_channels
    /\ locked' = FALSE
    /\ cb' = [pc |-> "idle", chunk |-> 0]
    /\ UNCHANGED <<device_channels, s_sources, poisoned, data, client, s_added,
                   s_callbacks, pushed, returned, pruned, firstIdx, atLock>>

\* The sources a client may add to the stream.
StreamKinds ==
    {[ch |-> c, len |-> l] : c \in {1, 2}, l \in {1, MaxLen}}
        \cup {[ch |-> 3, len |-> MaxLen]}

StreamNext ==
    \/ \E c \in Clients, k \in StreamKinds : AddCall(c, k.ch, k.len)
    \/ \E c \in Clients : AddLock(c)
    \/ \E c \in Clients : AddPush(c)
    \/ \E c \in Clients : AddReturn(c)
    \/ \E n \in 0..MaxCbFrames : CbBegin(n)
    \/ CbLock
    \/ CbChunk
    \/ CbEnd

(***************************************************************************)
(* OutputStream::new (stream.rs:31-129): what the host, the device and     *)
(* cpal answer is the environment's choice.  StreamNext above is the life  *)
(* of a stream built with the f32 callback.                                *)
(***************************************************************************)
\* stream.rs:35-38: host.default_output_device()
DeviceAnswers == {"None", "Some"}

\* stream.rs:40-49: supported_output_configs() and the first configuration
ConfigAnswers == {"DeviceNotAvailable", "InvalidArgument", "BackendSpecific", "Empty", "Some"}

\* cpal::SampleFormat
SampleFormats == {"F32", "I16", "U16"}

\* stream.rs:113-119: build_output_stream
BuildAnswers ==
    {"Ok", "DeviceNotAvailable", "StreamConfigNotSupported", "InvalidArgument",
     "StreamIdOverflow", "BackendSpecific"}

\* stream.rs:122-126: stream.play()
PlayAnswers == {"Ok", "DeviceNotAvailable", "BackendSpecific"}

\* A variant that turns integer formats away.
CallbackForF32Only(fmt) == IF fmt = "F32" THEN "write_f32" ELSE "none"

\* stream.rs:109-113: the callback built into the stream for a format.
CallbackFor(fmt) ==
    CASE fmt = "F32" -> "write_f32"
      [] fmt = "I16" -> "write_i16"
      [] fmt = "U16" -> "write_u16"

\* stream.rs:40-49
ConfigError(cfgs) ==
    CASE cfgs = "DeviceNotAvailable" -> "DeviceNotAvailable"
      [] cfgs = "InvalidArgument" -> "InvalidArgument"
      [] cfgs = "BackendSpecific" -> "CPALError"
      [] cfgs = "Empty" -> "DeviceNotUsable"

\* stream.rs:114-119
BuildError(build) ==
    CASE build = "DeviceNotAvailable" -> "DeviceNotAvailable"
      [] build = "StreamConfigNotSupported" -> "DeviceNotUsable"
      [] build = "InvalidArgument" -> "InvalidArgument"
      [] build = "StreamIdOverflow" -> "StreamIdOverflow"
      [] build = "BackendSpecific" -> "CPALError"

\* stream.rs:122-126
PlayError(play) ==
    CASE play = "DeviceNotAvailable" -> "DeviceNotAvailable"
      [] play = "BackendSpecific" -> "CPALError"

\* OutputStream::new (stream.rs:31-129)
OutputStream_open(dev, cfgs, fmt, build, play) ==
    /\ o_result = "none"
    /\ o_todo' = o_todo
    /\ IF dev = "None"
       THEN o_result' = "NoOutputDevice" /\ UNCHANGED <<o_format, o_installed, o_playing>>
       ELSE IF cfgs /= "Some"
       THEN o_result' = ConfigError(cfgs) /\ UNCHANGED <<o_format, o_installed, o_playing>>
       ELSE /\ o_format' = fmt
            /\ o_installed' = CallbackFor(fmt)
            /\ IF CallbackFor(fmt) = "none"
               THEN o_result' = "DeviceNotUsable" /\ o_playing' = FALSE
               ELSE IF build /= "Ok"
               THEN o_result' = BuildError(build) /\ o_playing' = FALSE
               ELSE IF play /= "Ok"
               THEN o_result' = PlayError(play) /\ o_playing' = FALSE
               ELSE o_result' = "Ok" /\ o_playing' = TRUE

\* The device asks a playing stream for samples and the callback built in
\* is write_i16 or write_u16 (stream.rs:103-105): todo!().
IntegerCallback ==
    /\ o_playing
    /\ o_installed \in {"write_i16", "write_u16"}
    /\ ~o_todo
    /\ o_todo' = TRUE
    /\ UNCHANGED <<o_result, o_format, o_installed, o_playing>>

\* Before OutputStream::new is called.
DeviceUnopened ==
    /\ o_result = "none" /\ o_format = "none" /\ o_installed = "none"
    /\ o_playing = FALSE /\ o_todo = FALSE

DeviceNext ==
    \/ /\ \E dev \in DeviceAnswers, cfgs \in ConfigAnswers, fmt \in SampleFormats,
             build \in BuildAnswers, play \in PlayAnswers :
                OutputStream_open(dev, cfgs, fmt, build, play)
       /\ UNCHANGED streamVars
    \/ IntegerCallback /\ UNCHANGED streamVars
    \/ /\ o_playing /\ o_installed = "write_f32"
       /\ StreamNext
       /\ UNCHANGED devVars

(***************************************************************************)
(* Resampler (src/resampler.rs).  The filter table's values are floats     *)
(* that play no part in which samples are read, when the child is pulled   *)
(* or what write_samples returns: the model keeps the table's length and   *)
(* keeps, for every filter position, which child sample it holds.          *)
(***************************************************************************)
\* A filter position that was never written (resampler.rs:119-122: set_len
\* on a fresh allocation).
Uninit == 0 - 1

\* resampler.rs:39-41
RECURSIVE gcd(_, _)
gcd(a, b) == IF b = 0 THEN a ELSE gcd(b, a % b)

Max(a, b) == IF a > b THEN a ELSE b

\* resampler.rs:93-97 with transition_width = 0.05 / downscale_factor
\* (line 105): ceil(57.05 / (2.285 * 2 * pi * 0.05) * d), the constant being
\* 79.47299346...; the product is below a whole number by more than 0.2 for
\* every d the model uses, so five decimals decide the ceiling.
kaiser_order(d) == (d * 7947300 + 99999) \div 100000

\* resampler.rs:107
kaiser_value_count(f, t) == kaiser_order(Max(t, f)) + 1

\* resampler.rs:115
filter_samples(f, t, ch) == ((kaiser_value_count(f, t) + t) \div t) * ch

\* The child's write_samples on a whole filter buffer: the first `count`
\* positions get the child's next samples, the rest keep what they held.
ChildFill(src, filt) ==
    Only({Tuple([i \in 1..Len(filt) |-> IF i <= count THEN src.pos + i - 1 ELSE filt[i]]) :
            count \in {SourceCount(src, Len(filt))}})

Fresh(n) == Tuple([i \in 1..n |-> Uninit])

\* resampler.rs:124-132: the pre-fill; what it leaves in last_sample.
PrefillLast(src, n) ==
    LET len1 == SourceCount(src, n)
        len2 == SourceCount(SourceAdvance(src, n), n)
    IN  IF len1 = n THEN (IF len2 = n THEN NoRet ELSE len2) ELSE len1

\* Whether the pre-fill reads the second buffer.
PrefillSecond(src, n) == SourceCount(src, n) = n

\* A variant that drops the assertion on source_rate.
RatesOkDestOnly(source_rate, dest_rate) == dest_rate /= 0

\* resampler.rs:35-36: the two assertions.
RatesOk(source_rate, dest_rate) == source_rate /= 0 /\ dest_rate /= 0

\* resampler.rs:34-148
Resampler_new(src, source_rate, dest_rate) ==
    /\ r_state = "unbuilt"
    /\ r_arg' = [ch |-> src.ch, source_rate |-> source_rate, dest_rate |-> dest_rate]
    /\ IF ~RatesOk(source_rate, dest_rate)
       THEN /\ r_state' = "new_panicked"
            /\ UNCHANGED <<source, from, to, left_offset, kaiser_count, filter_1, filter_2,
                           whole_filter_size, buffer_size, input_offset, output_count,
                           last_sample, r_child_calls, r_req, r_ret, r_short, r_fault,
                           r_conv_max, r_out>>
       ELSE LET g  == gcd(source_rate, dest_rate)
                f  == source_rate \div g
                t  == dest_rate \div g
                n  == filter_samples(f, t, src.ch)
                s1 == SourceAdvance(src, n)
            IN  /\ r_state' = "built"
                /\ from' = f
                /\ to' = t
                /\ kaiser_count' = kaiser_value_count(f, t)
                /\ left_offset' = kaiser_value_count(f, t) \div 2
                /\ filter_1' = ChildFill(src, Fresh(n))
                /\ filter_2' = IF PrefillSecond(src, n) THEN ChildFill(s1, Fresh(n))
                               ELSE Fresh(n)
                /\ source' = IF PrefillSecond(src, n) THEN SourceAdvance(s1, n) ELSE s1
                /\ r_child_calls' = IF PrefillSecond(src, n) THEN 2 ELSE 1
                /\ last_sample' = PrefillLast(src, n)
                /\ whole_filter_size' = n * 2
                /\ buffer_size' = n
                /\ input_offset' = 0
                /\ output_count' = 0
                /\ UNCHANGED <<r_req, r_ret, r_short, r_fault, r_conv_max, r_out>>

\* A variant of the refill that does not swap the two buffers.
RefillNoSwap(st) ==
    Only({[st EXCEPT !.filter_1 = fresh,
                     !.source = SourceAdvance(st.source, Len(st.filter_1)),
                     !.child_calls = @ + 1,
                     !.last_sample = IF SourceCount(st.source, Len(st.filter_1)) /= Len(st.filter_1)
                                     THEN st.buffer_size + SourceCount(st.source, Len(st.filter_1))
                                     ELSE @,
                     !.sample_index = @ - st.buffer_size,
                     !.input_offset = @ + st.buffer_size] :
            fresh \in {ChildFill(st.source, st.filter_1)}})

\* resampler.rs:177-190: one refill: the child writes into filter_1, the
\* buffers are swapped, the window moves on by buffer_size.
Refill(st) ==
    Only({[st EXCEPT !.filter_1 = st.filter_2,
                     !.filter_2 = fresh,
                     !.source = SourceAdvance(st.source, Len(st.filter_1)),
                     !.child_calls = @ + 1,
                     !.last_sample = IF SourceCount(st.source, Len(st.filter_1)) /= Len(st.filter_1)
                                     THEN st.buffer_size + SourceCount(st.source, Len(st.filter_1))
                                     ELSE @,
                     !.sample_index = @ - st.buffer_size,
                     !.input_offset = @ + st.buffer_size] :
            fresh \in {ChildFill(st.source, st.filter_1)}})

\* A variant of the loop's condition that refills whether or not the child
\* has ended.
NeedsRefillAlways(st) == st.sample_index >= st.whole

\* resampler.rs:177: the loop's condition.
NeedsRefill(st) == st.sample_index >= st.whole /\ st.last_sample = NoRet

RECURSIVE RefillLoop(_)
RefillLoop(st) ==
    IF ~NeedsRefill(st) THEN st
    ELSE Only({RefillLoop(nx) : nx \in {Refill(st)}})

\* A variant without the early return.
PastEndNever(st) == st.last_sample /= NoRet /\ st.sample_index >= st.whole + st.whole

\* A variant whose early return counts the sample it did not make.
ShortReturnNext(i) == i + 1

\* A variant whose early return reports nothing written.
ShortReturnZero(i) == i - i

\* resampler.rs:196: what the early return gives.
ShortReturn(i) == i

\* A variant of the early return that lets the sample at last_sample through.
PastEndLate(st) == st.last_sample /= NoRet /\ st.sample_index > st.last_sample

\* resampler.rs:194-198: past the end of the audio.
PastEnd(st) == st.last_sample /= NoRet /\ st.sample_index >= st.last_sample

\* resampler.rs:201-236: which branch of the convolution is taken.
\* filter_1.get(..=sample_index) is Some iff sample_index < filter_1.len().
ConvolveBranch(st) ==
    IF st.sample_index < Len(st.filter_1) THEN "filter_1"
    ELSE IF st.sample_index - st.buffer_size < Len(st.filter_2) THEN "both"
    ELSE "unreachable"

\* resampler.rs:166-167: the table entry the output sample about to be made
\* starts at.
KaiserIndex(st, ch) == (st.left_offset + st.from * (st.output_count \div ch)) % st.to

\* resampler.rs:208: kaiser_values.iter().skip(kaiser_index).step_by(to)
\* yields the entries kaiser_index, kaiser_index + to, ...: how many.
TapCount(st, ch) ==
    IF KaiserIndex(st, ch) >= st.kaiser_count THEN 0
    ELSE (st.kaiser_count - KaiserIndex(st, ch) + st.to - 1) \div st.to

\* How many elements iter().rev().skip(skip).step_by(ch) yields over a slice
\* of len elements.
RevStepLen(len, skip, ch) == IF len <= skip THEN 0 ELSE (len - skip + ch - 1) \div ch

\* A variant that starts the walk over filter_1 at its last sample whatever
\* the channel.
Filter1SkipNone(ch, channel) == channel - channel

\* resampler.rs:226: how far from its end the walk over filter_1 starts.
Filter1Skip(ch, channel) == ch - channel - 1

\* resampler.rs:201-210: the sum when the start lies in filter_1: the slice
\* filter_1[..=sample_index] walked backwards by ch, zipped with the taps.
ConvolveFilter1(st, ch) ==
    Tuple([k \in 1..Min(RevStepLen(st.sample_index + 1, 0, ch), TapCount(st, ch)) |->
            <<st.filter_1[st.sample_index + 1 - (k - 1) * ch],
              KaiserIndex(st, ch) + (k - 1) * st.to>>])

\* resampler.rs:213-230: the sum when the start lies in filter_2: the slice
\* filter_2[..=offset] walked backwards by ch with the first `skip` taps,
\* then filter_1 walked backwards from its end with the taps after them.
ConvolveBoth(st, ch) ==
    LET offset  == st.sample_index - st.buffer_size
        skip    == RevStepLen(offset + 1, 0, ch)
        first   == Filter1Skip(ch, st.output_count % ch)
        n1      == Min(RevStepLen(Len(st.filter_1), first, ch),
                       Max(TapCount(st, ch) - skip, 0))
    IN  Tuple([k \in 1..Min(skip, TapCount(st, ch)) |->
                <<st.filter_2[offset + 1 - (k - 1) * ch],
                  KaiserIndex(st, ch) + (k - 1) * st.to>>])
        \o
        Tuple([k \in 1..n1 |->
                <<st.filter_1[Len(st.filter_1) - first - (k - 1) * ch],
                  KaiserIndex(st, ch) + (skip + k - 1) * st.to>>])

\* resampler.rs:200-236: the terms of the sum stored into *s, in the order
\* they are added: <<child sample, table entry>> for each product.
Convolve(st, ch) ==
    IF ConvolveBranch(st) = "filter_1" THEN ConvolveFilter1(st, ch) ELSE ConvolveBoth(st, ch)

\* resampler.rs:192-236: self as it is when the sum is taken: the two
\* filters, where the sum starts, the window's place and the end marker the
\* early return has just looked at, and the shape of the table.
ConvolveArgs(st) ==
    [filter_1 |-> st.filter_1, filter_2 |-> st.filter_2,
     sample_index |-> st.sample_index, output_count |-> st.output_count,
     input_offset |-> st.input_offset, last_sample |-> st.last_sample,
     buffer_size |-> st.buffer_size, left_offset |-> st.left_offset,
     from |-> st.from, to |-> st.to, kaiser_count |-> st.kaiser_count]

\* resampler.rs:160-172: sample_index of the output sample about to be made
\* (before the subtraction of input_offset is checked).
SampleIndex(st, ch) ==
    LET channel     == st.output_count % ch
        start       == st.left_offset + st.from * (st.output_count \div ch)
        input_index == start \div st.to
    IN  (input_index * ch) + channel - st.input_offset

\* resampler.rs:157-239: the body of the loop for output sample i.  The
\* result has done = TRUE once write_samples has returned (ret) or unwound
\* (fault).
SampleStep(st0, i, ch) ==
    IF SampleIndex(st0, ch) < 0
    THEN [st0 EXCEPT !.done = TRUE, !.fault = "underflow"]
    ELSE Only({
        IF PastEnd(st) THEN [st EXCEPT !.done = TRUE, !.ret = ShortReturn(i)]
        ELSE IF ConvolveBranch(st) = "unreachable"
        THEN [st EXCEPT !.done = TRUE, !.fault = "unreachable"]
        ELSE [st EXCEPT !.output_count = @ + 1,
                        !.conv_max = Max(@, st.sample_index),
                        !.out = Append(@, ConvolveArgs(st))] :
        st \in {RefillLoop([st0 EXCEPT !.sample_index = SampleIndex(st0, ch)])}})

RECURSIVE SampleLoop(_, _, _, _)
SampleLoop(st, i, n, ch) ==
    IF st.done THEN st
    ELSE IF i = n THEN [st EXCEPT !.done = TRUE, !.ret = n]
    ELSE Only({SampleLoop(nx, i + 1, n, ch) : nx \in {SampleStep(st, i, ch)}})

\* resampler.rs:152-242 on a buffer of n samples.
Resampler_write_samples(n) ==
    /\ r_state = "built"
    /\ \E st \in {SampleLoop([filter_1 |-> filter_1, filter_2 |-> filter_2,
                              source |-> source, child_calls |-> r_child_calls,
                              last_sample |-> last_sample, input_offset |-> input_offset,
                              output_count |-> output_count, buffer_size |-> buffer_size,
                              whole |-> whole_filter_size, left_offset |-> left_offset,
                              from |-> from, to |-> to, sample_index |-> 0,
                              conv_max |-> r_conv_max,
                              kaiser_count |-> kaiser_count, out |-> <<>>,
                              done |-> FALSE, ret |-> NoRet, fault |-> ""],
                             0, n, source.ch)} :
        /\ filter_1' = st.filter_1
        /\ filter_2' = st.filter_2
        /\ source' = st.source
        /\ r_child_calls' = st.child_calls
        /\ last_sample' = st.last_sample
        /\ input_offset' = st.input_offset
        /\ output_count' = st.output_count
        /\ r_fault' = st.fault
        /\ r_conv_max' = st.conv_max
        /\ r_out' = st.out
        /\ r_state' = IF st.fault /= "" THEN "pull_panicked" ELSE "built"
        /\ r_ret' = st.ret
    /\ r_req' = n
    /\ r_short' = (r_short \/ (r_ret /= NoRet /\ r_ret < r_req))
    /\ UNCHANGED <<from, to, left_offset, kaiser_count, whole_filter_size, buffer_size, r_arg>>

\* A variant that reports one channel whatever the child has.
Resampler_channel_count_mono == Min(source.ch, 1)

\* Resampler::channel_count (resampler.rs:244-246)
Resampler_channel_count == source.ch

\* Before Resampler::new is called there is no Resampler.
ResamplerUnbuilt ==
    /\ r_state = "unbuilt"
    /\ source = [ch |-> 1, len |-> 0, pos |-> 0]
    /\ from = 0 /\ to = 0 /\ left_offset = 0 /\ kaiser_count = 0
    /\ filter_1 = <<>> /\ filter_2 = <<>>
    /\ whole_filter_size = 0 /\ buffer_size = 0
    /\ input_offset = 0 /\ output_count = 0
    /\ last_sample = NoRet
    /\ r_arg = [ch |-> 0, source_rate |-> 0, dest_rate |-> 0]
    /\ r_child_calls = 0
    /\ r_req = NoRet /\ r_ret = NoRet /\ r_short = FALSE /\ r_fault = ""
    /\ r_conv_max = NoRet
    /\ r_out = <<>>

\* The rates, channel counts and child lengths Resampler::new is given: the
\* lengths lie around the multiples of the filter buffer's size, where the
\* pre-fill and the refills come up short.
Rates == {0, 1, 2, 3}

ChildChannels == {1, 2}

ChildLens(n) ==
    {0, 1, 2} \cup {l \in {k * n + d : k \in 1..MaxWindows, d \in {0 - 2, 0 - 1, 0, 1, 2}} : l >= 0}

ResamplerNext ==
    \/ \E sr \in Rates, dr \in Rates, ch \in ChildChannels :
        \E len \in (IF RatesOk(sr, dr)
                    THEN ChildLens(filter_samples(sr \div gcd(sr, dr), dr \div gcd(sr, dr), ch))
                    ELSE {0}) :
            Resampler_new([ch |-> ch, len |-> len, pos |-> 0], sr, dr)
    \/ \E frames \in {0, 1, MaxPull} : Resampler_write_samples(frames * source.ch)

\* The children the convolution is followed over: one that ends inside the
\* first filter buffer, one that ends just inside the second, and those
\* that end around the last refill.
ConvolveLens(n) ==
    {l \in {n - 1, n + 1} \cup {MaxWindows * n + d : d \in {0 - 2, 0 - 1, 0, 1, 2}} : l >= 0}

ConvolveNext ==
    \/ \E sr \in Rates \ {0}, dr \in Rates \ {0}, ch \in ChildChannels :
        \E len \in ConvolveLens(filter_samples(sr \div gcd(sr, dr), dr \div gcd(sr, dr), ch)) :
            Resampler_new([ch |-> ch, len |-> len, pos |-> 0], sr, dr)
    \/ \E frames \in {0, 1, MaxPull} : Resampler_write_samples(frames * source.ch)

(***************************************************************************)
(* WavPlayer (src/source/wav.rs).  A file is a sequence of bytes; Rust's    *)
(* file[k] is file[k + 1] here.  usize is 64 bits wide: no sum of a u32    *)
(* and an offset into a blob overflows it.  The checker's integers are 32  *)
(* bits wide, so a u32 of 2^30 or more is read as Huge, which is all the   *)
(* code can learn of it: it only compares it with offsets into the blob.   *)
(***************************************************************************)
Byte(v, k) == (v \div (256 ^ k)) % 256

\* to_le_bytes of a value of n bytes (two's complement when negative: \div
\* rounds down and % is never negative)
ToLe(v, n) == Tuple([k \in 1..n |-> Byte(v, k - 1)])

\* More than the length of any blob.
Huge == 2 ^ 30

\* u16::from_le_bytes, u32::from_le_bytes
u16_from_le_bytes(b) == b[1] + 256 * b[2]

u32_from_le_bytes(b) ==
    IF b[4] >= 64 THEN Huge ELSE b[1] + 256 * b[2] + 65536 * b[3] + 16777216 * b[4]

\* The signed value of a two's-complement pattern of the given width.
Signed(u, bits) == IF u >= 2 ^ (bits - 1) THEN u - 2 ^ bits ELSE u

\* i16::from_le_bytes, i32::from_le_bytes
i16_from_le_bytes(b) == Signed(u16_from_le_bytes(b), 16)

i32_from_le_bytes(b) ==
    b[1] + 256 * b[2] + 65536 * b[3] + 16777216 * (IF b[4] >= 128 THEN b[4] - 256 ELSE b[4])

\* file[a..b] of Rust: the bytes at offsets a .. b - 1
Slice(f, a, b) == SubSeq(f, a + 1, b)

Ascii(name) ==
    CASE name = "RIFF" -> <<82, 73, 70, 70>>
      [] name = "WAVE" -> <<87, 65, 86, 69>>
      [] name = "fmt " -> <<102, 109, 116, 32>>
      [] name = "data" -> <<100, 97, 116, 97>>
      [] name = "LIST" -> <<76, 73, 83, 84>>

\* wav.rs:38: the blob is too short or lacks the magic.
NotWav(f) ==
    \/ Len(f) < 36
    \/ Slice(f, 0, 4) /= Ascii("RIFF")
    \/ Slice(f, 8, 12) /= Ascii("WAVE")

\* A variant that skips the pad byte RIFF puts after a chunk of odd length.
SkipToPadded(data_start, data_len) == data_start + 8 + data_len + (data_len % 2)

\* wav.rs:59-64: where the walk goes on after a chunk that is not the data
\* chunk.
SkipTo(data_start, data_len) == data_start + 8 + data_len

\* wav.rs:47-65: the walk over the chunks from data_start; the result is
\* [found, data_len, data_start, visited], data_start being past the chunk's
\* header and visited the offsets at which the walk read a chunk header.
RECURSIVE FindData(_, _)
FindData(f, data_start) ==
    IF Len(f) < data_start + 8
    THEN [found |-> FALSE, data_len |-> 0, data_start |-> data_start, visited |-> <<>>]
    ELSE LET is_data_chunk == Slice(f, data_start, data_start + 4) = Ascii("data")
             data_len      == u32_from_le_bytes(Slice(f, data_start + 4, data_start + 8))
         IN  IF is_data_chunk
             THEN [found |-> TRUE, data_len |-> data_len, data_start |-> data_start + 8,
                   visited |-> <<data_start>>]
             ELSE [FindData(f, SkipTo(data_start, data_len)) EXCEPT
                       !.visited = <<data_start>> \o @]

\* wav.rs:74-81
FormatOf(audio_format, sample_bits) ==
    CASE audio_format = 1 /\ sample_bits = 8  -> "U8"
      [] audio_format = 1 /\ sample_bits = 16 -> "I16"
      [] audio_format = 1 /\ sample_bits = 24 -> "I24"
      [] audio_format = 1 /\ sample_bits = 32 -> "I32"
      [] audio_format = 3 /\ sample_bits = 32 -> "F32"
      [] OTHER -> "unknown"

\* A variant that takes any 32-bit encoding for float.
FormatOfLoose(audio_format, sample_bits) ==
    IF sample_bits = 32 /\ audio_format /= 1 THEN "F32" ELSE FormatOf(audio_format, sample_bits)

\* wav.rs:74: the match on (audio_format, sample_bits).
MatchFormat(audio_format, sample_bits) == FormatOf(audio_format, sample_bits)

NoPlayer(result, f) ==
    [result |-> result, file |-> f, channels |-> 0, sample_bytes |-> 0,
     next_sample_offset |-> 0, format |-> "unknown", length |-> 0]

\* wav.rs:36-94: the value new returns for a blob.
WavOpen(f) ==
    IF NotWav(f) THEN NoPlayer("InvalidFile", f)
    ELSE LET audio_format == i16_from_le_bytes(Slice(f, 20, 22))
             channels_    == u16_from_le_bytes(Slice(f, 22, 24))
             sample_bits  == u16_from_le_bytes(Slice(f, 34, 36))
             chunk        == FindData(f, 36)
             expected_file_length == chunk.data_len + chunk.data_start
         IN  IF ~chunk.found THEN NoPlayer("InvalidFile", f)
             ELSE IF expected_file_length > Len(f) THEN NoPlayer("MalformedData", f)
             ELSE IF MatchFormat(audio_format, sample_bits) = "unknown"
             THEN NoPlayer("UnknownFormat", SubSeq(f, 1, expected_file_length))
             ELSE IF sample_bits \div 8 = 0
             THEN NoPlayer("panic", SubSeq(f, 1, expected_file_length))
             ELSE [result |-> "Ok",
                   file |-> SubSeq(f, 1, expected_file_length),
                   channels |-> channels_,
                   sample_bytes |-> sample_bits \div 8,
                   next_sample_offset |-> chunk.data_start,
                   format |-> MatchFormat(audio_format, sample_bits),
                   length |-> chunk.data_len \div (sample_bits \div 8)]

\* WavPlayer::new (wav.rs:36-94); `signal` is what the blob's data encodes.
WavPlayer_new(blob, signal) ==
    /\ w_result = "none"
    /\ w_blob' = blob
    /\ w_signal' = signal
    /\ \E p \in {WavOpen(blob)} :
        /\ w_result' = p.result
        /\ file' = p.file
        /\ w_channels' = p.channels
        /\ sample_bytes' = p.sample_bytes
        /\ next_sample_offset' = p.next_sample_offset
        /\ format' = p.format
        /\ length' = p.length
    /\ UNCHANGED <<w_out, w_req, w_ret, w_short>>

\* Before WavPlayer::new is called there is no WavPlayer.
WavUnopened ==
    /\ w_result = "none"
    /\ file = <<>> /\ w_blob = <<>> /\ w_signal = <<>>
    /\ w_channels = 0 /\ sample_bytes = 0 /\ next_sample_offset = 0
    /\ format = "unknown" /\ length = 0
    /\ w_out = <<>> /\ w_req = NoRet /\ w_ret = NoRet /\ w_short = FALSE

\* A decoded sample is the exact quotient num / den the code computes before
\* it is rounded to f32; den = 0 marks an f32 taken over bit for bit, num
\* being its bit pattern.
Quot(n, d) == [num |-> n, den |-> d]

\* wav.rs:159-162
get_sample_u8(d) == Quot(d - 128, 127)

\* wav.rs:165-168
get_sample_i16(d) == Quot(i16_from_le_bytes(d), 32767)

\* wav.rs:171-174: the three bytes and a zero byte, as an i32
get_sample_i24(d) == Quot(i32_from_le_bytes(<<d[1], d[2], d[3], 0>>), 8388608)

\* wav.rs:177-180
get_sample_i32(d) == Quot(i32_from_le_bytes(d), 2147483647)

\* wav.rs:183-186: the bit pattern, held as an i32
get_sample_f32(d) == Quot(i32_from_le_bytes(d), 0)

\* wav.rs:116-144: the decoder of the player's format on one chunk of bytes.
Decode(fmt, chunk) ==
    CASE fmt = "U8"  -> get_sample_u8(chunk[1])
      [] fmt = "I16" -> get_sample_i16(chunk)
      [] fmt = "I24" -> get_sample_i24(chunk)
      [] fmt = "I32" -> get_sample_i32(chunk)
      [] fmt = "F32" -> get_sample_f32(chunk)

\* wav.rs:116-144: the width of the chunks of bytes the format's arm takes.
ChunkBytes(fmt) ==
    CASE fmt = "U8" -> 1 [] fmt = "I16" -> 2 [] fmt = "I24" -> 3 [] fmt = "I32" -> 4
      [] fmt = "F32" -> 4

\* i.chunks_exact(w): the k-th whole chunk of the bytes from offset `off`.
ChunkAt(f, off, w, k) == Slice(f, off + (k - 1) * w, off + k * w)

\* A variant that moves on by whole requests.
AdvanceByRequest(samples_written, sb) == (samples_written + 1) * sb

\* wav.rs:146: how far next_sample_offset moves.
Advance(samples_written, sb) == samples_written * sb

\* wav.rs:108-152 on a buffer of n samples.
WavPlayer_write_samples(n) ==
    /\ w_result = "Ok"
    /\ w_req' = n
    /\ w_short' = (w_short \/ (w_ret /= NoRet /\ w_ret < w_req))
    /\ IF next_sample_offset <= Len(file)
       THEN LET w == ChunkBytes(format)
                samples_written == Min(n, (Len(file) - next_sample_offset) \div w)
            IN  /\ w_out' = w_out \o Tuple([k \in 1..samples_written |->
                                Decode(format, ChunkAt(file, next_sample_offset, w, k))])
                /\ next_sample_offset' = next_sample_offset + Advance(samples_written, sample_bytes)
                /\ w_ret' = samples_written
       ELSE /\ w_ret' = 0
            /\ UNCHANGED <<w_out, next_sample_offset>>
    /\ UNCHANGED <<w_result, file, w_channels, sample_bytes, format, length, w_blob, w_signal>>

\* WavPlayer::channel_count (wav.rs:154-156)
WavPlayer_channel_count == w_channels

(***************************************************************************)
(* The blobs WavPlayer::new is given.  A blob is built from a header, an   *)
(* optional chunk before the data chunk, the data chunk's header with the  *)
(* length it declares, and the bytes that follow; the families below vary  *)
(* one of these at a time around well-formed files.                        *)
(***************************************************************************)
\* The k-th sample of the signal a file encodes: 1, -1, the greatest and the
\* least value of the width, then 5, -5, ...
Signal(bits, k) ==
    CASE k = 3 -> (2 ^ (bits - 2) - 1) + 2 ^ (bits - 2)
      [] k = 4 -> 0 - 2 ^ (bits - 2) - 2 ^ (bits - 2)
      [] OTHER -> IF k % 2 = 1 THEN k ELSE 1 - k

SignalOf(bits, n) == Tuple([k \in 1..n |-> Signal(bits, k)])

\* The data bytes of a signal: u8 is offset binary, the wider formats are
\* little-endian two's complement (for float files: the bit patterns).
RECURSIVE Encode(_, _)
Encode(bits, sig) ==
    IF sig = <<>> THEN <<>>
    ELSE (IF bits = 8 THEN <<Head(sig) + 128>>
          ELSE ToLe(Head(sig), bits \div 8)) \o Encode(bits, Tail(sig))

Header(audio_format, channels_, bits) ==
    Ascii("RIFF") \o ToLe(0, 4) \o Ascii("WAVE") \o Ascii("fmt ") \o ToLe(16, 4)
        \o ToLe(audio_format, 2) \o ToLe(channels_, 2) \o ToLe(44100, 4)
        \o ToLe(0, 4) \o ToLe(0, 2) \o ToLe(bits, 2)

\* A chunk that is not the data chunk, declaring `declared` bytes (-1: the
\* bytes ff ff ff ff) and followed by `actual` bytes.
ListChunk(declared, actual) ==
    Ascii("LIST") \o ToLe(declared, 4) \o Tuple([k \in 1..actual |-> 7])

\* The data chunk of a signal, declaring `declared` bytes, followed by
\* `extra` bytes that are not part of it.
DataChunk(bits, sig, declared, extra) ==
    Ascii("data") \o ToLe(declared, 4) \o Encode(IF bits < 8 THEN 8 ELSE bits, sig)
        \o Tuple([k \in 1..extra |-> 255])

WavFile(bytes, sig, bits) == [bytes |-> bytes, signal |-> sig, bits |-> bits]

\* (audio_format, sample_bits) pairs: the five supported ones and others.
Encodings ==
    {<<1, 8>>, <<1, 16>>, <<1, 24>>, <<1, 32>>, <<3, 32>>,
     <<1, 4>>, <<1, 12>>, <<2, 16>>, <<3, 16>>, <<0 - 2, 32>>}

SampleBytes(bits) == IF bits < 8 THEN 1 ELSE bits \div 8

\* Well-formed files of every encoding and channel count, with and without
\* a chunk before the data and bytes after it.
PlainFiles ==
    {WavFile(Header(e[1], ch, e[2]) \o pre
                 \o DataChunk(e[2], SignalOf(e[2], n), n * SampleBytes(e[2]), extra),
             SignalOf(e[2], n), e[2]) :
        e \in Encodings, ch \in 0..2, n \in 0..MaxWavSamples, extra \in 0..1,
        pre \in {<<>>, ListChunk(2, 2)}}

\* The canonical file: two channels of 16 bits, a chunk before the data.
Canonical(declared, extra) ==
    Header(1, 2, 16) \o ListChunk(2, 2) \o DataChunk(16, SignalOf(16, MaxWavSamples), declared, extra)

CanonicalLen == 2 * MaxWavSamples

\* Every prefix of the canonical file.
CutFiles ==
    {WavFile(SubSeq(Canonical(CanonicalLen, 1), 1, n), SignalOf(16, MaxWavSamples), 16) :
        n \in 0..Len(Canonical(CanonicalLen, 1))}

\* The canonical file with one of its first twelve bytes changed.
DamagedFiles ==
    {WavFile([Canonical(CanonicalLen, 0) EXCEPT ![k] = 0], SignalOf(16, MaxWavSamples), 16) :
        k \in 1..12}

\* The canonical file with a data chunk that declares more or fewer bytes
\* than follow it, and files whose chunk before the data declares more.
MisdeclaredFiles ==
    {WavFile(Canonical(d, 0), SignalOf(16, MaxWavSamples), 16) : d \in 0..(CanonicalLen + 2)}
    \cup {WavFile(Header(1, 1, 8) \o ListChunk(d, 2) \o DataChunk(8, SignalOf(8, 2), 2, 0),
                  <<>>, 8) : d \in {0, 1, 3, 12, 13, 0 - 1}}

\* Files with more than one chunk to walk over: two chunks before the data,
\* a chunk whose payload looks like a data chunk, and a second data chunk
\* after the first.
ChunkedFiles ==
    {WavFile(Header(1, 1, 8) \o pre \o DataChunk(8, SignalOf(8, 2), 2, 0) \o post,
             SignalOf(8, 2), 8) :
        pre \in {ListChunk(0, 0) \o ListChunk(2, 2),
                 Ascii("LIST") \o ToLe(10, 4) \o DataChunk(8, SignalOf(8, 2), 2, 0),
                 <<>>},
        post \in {<<>>, DataChunk(8, SignalOf(8, 1), 1, 0)}}

WavFiles == PlainFiles \cup CutFiles \cup DamagedFiles \cup MisdeclaredFiles \cup ChunkedFiles

WavNext ==
    \/ \E wf \in WavFiles : WavPlayer_new(wf.bytes, wf.signal)
    \/ \E n \in 0..MaxWavPull : WavPlayer_write_samples(n)

(***************************************************************************)
(* The specifications: each runs one component and leaves the others as    *)
(* constructed.                                                            *)
(***************************************************************************)
Init == Mixer_new /\ OutputStream_new /\ ResamplerUnbuilt /\ WavUnopened /\ DeviceUnopened

Next == MixerNext /\ UNCHANGED <<streamVars, rsVars, wavVars, devVars>>

Spec == Init /\ [][Next]_vars

StreamSpec == Init /\ [][StreamNext /\ UNCHANGED <<mixerVars, rsVars, wavVars, devVars>>]_vars

DeviceSpec == Init /\ [][DeviceNext /\ UNCHANGED <<mixerVars, rsVars, wavVars>>]_vars

WavSpec == Init /\ [][WavNext /\ UNCHANGED <<mixerVars, streamVars, rsVars, devVars>>]_vars

ResamplerSpec == Init /\ [][ResamplerNext /\ UNCHANGED <<mixerVars, streamVars, wavVars, devVars>>]_vars

ConvolveSpec == Init /\ [][ConvolveNext /\ UNCHANGED <<mixerVars, streamVars, wavVars, devVars>>]_vars

\* The device (or any caller) keeps pulling: a pull of at least one frame
\* that can change the state is eventually made.
NonEmptyPull ==
    \E buf \in CallerBuffers : Len(buf) > 0 /\ Mixer_write_samples(buf)

LongSpec == Init /\ [][MixerLongNext /\ UNCHANGED <<streamVars, rsVars, wavVars, devVars>>]_vars

FairSpec ==
    /\ Init
    /\ [][MixerLiveNext /\ UNCHANGED <<streamVars, rsVars, wavVars, devVars>>]_vars
    /\ WF_vars(NonEmptyPull /\ UNCHANGED <<streamVars, rsVars, wavVars, devVars>>)

(***************************************************************************)
(* What the last pull should have produced, computed from the record of    *)
(* its child calls: the sum of every child's adapted contribution.         *)
(***************************************************************************)
\* Whether call c contributes to output position i (1-based).
Contributes(c, i) ==
    IF c.ch = channels THEN i <= c.count
    ELSE c.ch = 1 /\ ((i - 1) \div channels) < c.count

\* The sample call c contributes to output position i.
Contribution(c, i) ==
    IF ~Contributes(c, i) THEN 0
    ELSE IF c.ch = channels THEN Sample(c.id, c.start + i - 1)
    ELSE Sample(c.id, c.start + ((i - 1) \div channels))

RECURSIVE ExpectedAt(_, _)
ExpectedAt(cs, i) ==
    IF cs = <<>> THEN 0 ELSE Contribution(Head(cs), i) + ExpectedAt(Tail(cs), i)

\* The decimal digit child `id` has in an output sample.
Digit(v, id) == (v \div Pow10(id - 1)) % 10

\* The last write_samples call returned (it did not unwind).
PullReturned == ret /= NoRet

ShortCalls == {i \in DOMAIN calls : calls[i].count < calls[i].req}


(***************************************************************************)
(* Claims about the Mixer.                                                 *)
(***************************************************************************)

\* C1: after a write_samples call that returned, every output sample equals
\* the sum, over the children present at the start of the call, of the
\* child's adapted contribution (same index for a child with C_in = C_out,
\* frame i on every channel for a mono child): a mono child's samples are
\* added to what earlier children accumulated.
C1_OutputIsSum ==
    PullReturned => \A i \in DOMAIN buffer : buffer[i] = ExpectedAt(calls, i)

\* C2: a child that returned k < its request in the last pull is gone from
\* the list when the pull returns, no child that underfilled in an earlier
\* pull is called again, and the k samples the underfilling child wrote are
\* part of the output of that pull.
C2_Removed ==
    PullReturned => \A i \in ShortCalls : calls[i].id \notin Ids(sources)

C2_NeverCalledAgain ==
    \A i \in DOMAIN calls : calls[i].id \notin shortBefore

C2_PartialMixed ==
    PullReturned =>
        \A i \in ShortCalls : \A p \in DOMAIN buffer :
            Contributes(calls[i], p) =>
                Digit(buffer[p], calls[i].id) = Digit(Contribution(calls[i], p), calls[i].id)

C2_PrunedOnceShort == C2_Removed /\ C2_NeverCalledAgain /\ C2_PartialMixed

\* C3: every write_samples call that returns, returns buffer.len(), a whole
\* number of frames, whatever the children did; a position no child
\* contributed to holds 0, and nothing of what the buffer held before the
\* call is left in it.
C3_FullWriteAndSilence ==
    PullReturned =>
        /\ ret = Len(buffer)
        /\ ret % channels = 0
        /\ \A p \in DOMAIN buffer :
            /\ (\A i \in DOMAIN calls : ~Contributes(calls[i], p)) => buffer[p] = 0
            /\ buffer[p] >= 0

\* C3's case: a pull of at least one frame returned although a child
\* underfilled, and a position nobody wrote holds silence.
C3_Witness ==
    /\ PullReturned
    /\ ret > 0
    /\ ShortCalls /= {}
    /\ \E p \in DOMAIN buffer :
        /\ \A i \in DOMAIN calls : ~Contributes(calls[i], p)
        /\ buffer[p] = 0

\* C4: when the last pull found [c1, c2, c3] and only c2 returned short,
\* the next pull calls c1 and c3, once each and in that order, then every
\* child added since, and its output is the sum of their contributions.
MiddleShort ==
    /\ PullReturned
    /\ Len(calls) = 3
    /\ ShortCalls = {2}

IsPull == \E buf \in CallerBuffers : Mixer_write_samples(buf)

C4_PullOrder ==
    [][(MiddleShort /\ IsPull) =>
          /\ Len(sources) >= 2
          /\ sources[1].id = calls[1].id
          /\ sources[2].id = calls[3].id
          /\ Len(calls') = Len(sources)
          /\ \A i \in DOMAIN sources : calls'[i].id = sources[i].id]_vars

C4_Mixed ==
    [][(MiddleShort /\ IsPull /\ ret' /= NoRet) =>
          \A p \in DOMAIN buffer' :
              \A i \in DOMAIN calls' :
                  Contributes(calls'[i], p) =>
                      Digit(buffer'[p], calls'[i].id)
                          = Digit(Contribution(calls'[i], p), calls'[i].id)]_vars

C4_MixesSurvivorsAndNewcomer == C4_PullOrder /\ C4_Mixed

\* C6: under repeated pulls of at least one frame every finite child is
\* eventually removed from the list (unless a pull unwinds first), and a
\* child leaves the list only in a pull in which it did not fill its request.
C6_RemovedOnlyWhenShort ==
    [][\A id \in Ids(sources) \ Ids(sources') : id \in short' \ short]_vars

C6_FiniteEventuallyRemoved ==
    \A id \in 1..MaxLiveAdds :
        (\E i \in DOMAIN sources : sources[i].id = id /\ sources[i].len /= Endless)
            ~> (id \notin Ids(sources) \/ panicked)

C6_PlayedUntilExhausted == C6_FiniteEventuallyRemoved /\ C6_RemovedOnlyWhenShort

\* C6's case: a finite child has been pruned after underfilling while an
\* endless child that was pulled in the same pull is still in the list.
C6_Witness ==
    /\ PullReturned
    /\ \E i \in ShortCalls : calls[i].id \notin Ids(sources)
    /\ \E i \in DOMAIN calls :
        /\ calls[i].id \in Ids(sources)
        /\ \E j \in DOMAIN sources : sources[j].id = calls[i].id /\ sources[j].len = Endless

(***************************************************************************)
(* Claims about the OutputStream.                                          *)
(***************************************************************************)
\* The threads between their lock() and the drop of their guard.
ClientsInside == {c \in Clients : client[c].pc \in {"push", "unlock"}}

CallbackInside == cb.pc = "mix"

\* C5: the source list is touched only under the mutex: at most one of the
\* client threads and the audio thread is between lock() and the drop of
\* its guard, and then the mutex is held; the list holds each pushed and
\* not yet pruned source exactly once; every source whose add_source had
\* returned when the callback took the lock is in the list the callback
\* found; and the first sample mixed of any source is its sample 0.
C5_LockDiscipline ==
    /\ Cardinality(ClientsInside) + (IF CallbackInside THEN 1 ELSE 0) <= 1
    /\ (ClientsInside /= {} \/ CallbackInside) => locked
    /\ \A i, j \in DOMAIN s_sources : s_sources[i].id = s_sources[j].id => i = j
    /\ Ids(s_sources) = pushed \ pruned
    /\ returned \subseteq pushed
    /\ atLock.due \subseteq atLock.seen
    /\ \A id \in StreamIds : firstIdx[id] \in {NoRet, 0}

\* C5's case: the callback holds the lock and has mixed a frame, starting at
\* sample 0, of a source whose add_source had returned, while a client
\* thread is waiting in lock().
C5_Witness ==
    /\ CallbackInside
    /\ cb.chunk >= 1
    /\ \E c \in Clients : client[c].pc = "lock"
    /\ \E id \in atLock.due : firstIdx[id] = 0 /\ id \in Ids(s_sources)

\* C7: every Resampler.write_samples call returns at most buffer.len(), and
\* once a call has returned less than its buffer.len(), every later call
\* returns 0.
C7_ShortThenZero ==
    (r_state = "built" /\ r_req /= NoRet) =>
        /\ r_ret \in 0..r_req
        /\ r_short => r_ret = 0

\* C7's case: a call on a non-empty buffer returned 0 after an earlier call
\* had returned some samples but fewer than asked, the child having been
\* pulled again after the pre-fill.
C7_Witness ==
    /\ r_state = "built" /\ r_short /\ r_ret = 0 /\ r_req > 0
    /\ output_count > 0 /\ input_offset > 0

\* C8: Resampler.write_samples never unwinds: neither on unreachable!() (a
\* convolved sample_index is below 2 x buffer_size) nor on the subtraction of
\* input_offset; and a call returns less than buffer.len() only after the
\* child has underfilled.
C8_NeverPanics ==
    /\ r_state /= "pull_panicked"
    /\ r_fault = ""
    /\ r_state = "built" => r_conv_max < 2 * buffer_size
    /\ (r_state = "built" /\ r_req /= NoRet) =>
        /\ r_ret /= NoRet
        /\ r_ret < r_req => (last_sample /= NoRet /\ Remaining(source) = 0)

\* C8's case: after a refill, samples were convolved from both filter
\* buffers and a later pull came up short.
C8_Witness ==
    /\ r_state = "built" /\ input_offset > 0
    /\ r_conv_max >= buffer_size
    /\ r_req /= NoRet /\ r_ret > 0 /\ r_ret < r_req

\* C9: Resampler::new with source_rate = 0 or dest_rate = 0 panics, and the
\* child has not been asked for a sample by then; with both rates above 0
\* construction succeeds.
C9_ZeroRateRejected ==
    r_state /= "unbuilt" =>
        /\ (r_arg.source_rate = 0 \/ r_arg.dest_rate = 0) <=> r_state = "new_panicked"
        /\ r_state = "new_panicked" => (r_child_calls = 0 /\ source.pos = 0)
        /\ (r_arg.source_rate > 0 /\ r_arg.dest_rate > 0) => r_child_calls >= 1

\* C9's case: new was given a positive source rate and a zero destination
\* rate and unwound at the second assertion.
C9_Witness ==
    r_state = "new_panicked" /\ r_arg.source_rate > 0 /\ r_arg.dest_rate = 0

\* C10: in every state after construction, whatever was pulled, the
\* Resampler's channel_count() is the channel count of the child it was
\* given.
C10_ChannelCount ==
    r_state \in {"built", "pull_panicked"} => Resampler_channel_count = r_arg.ch

\* C10's case: a Resampler over a two-channel child at unequal rates, after
\* pulls that made it refill and then run out.
C10_Witness ==
    /\ r_state = "built" /\ r_arg.ch = 2 /\ from /= to
    /\ input_offset > 0 /\ last_sample /= NoRet
    /\ Resampler_channel_count = 2

\* The length of the truncation tail the identity resample is allowed, in
\* frames.
FILTER_SIZE == 60

\* The Resampler has returned short: it will emit nothing more.
ResamplerExhausted == r_state = "built" /\ r_req /= NoRet /\ r_ret < r_req

\* C11: at equal rates the Resampler drops at most the last FILTER_SIZE
\* frames of a finite child: once it is exhausted it has emitted at least
\* (frames of the child - FILTER_SIZE) frames.
C11_IdentityTail ==
    (ResamplerExhausted /\ from = to) =>
        output_count \div source.ch >= (source.len \div source.ch) - FILTER_SIZE

\* What a blob is, read off its bytes: too short or without the magic or
\* without a data chunk header; declaring more data than it holds; of an
\* encoding that is not supported.
BlobInvalid(b) ==
    \/ Len(b) < 36
    \/ \E k \in 1..4 : b[k] /= Ascii("RIFF")[k] \/ b[8 + k] /= Ascii("WAVE")[k]
    \/ ~FindData(b, 36).found

BlobOverrun(b) == FindData(b, 36).data_start + FindData(b, 36).data_len > Len(b)

BlobEncoding(b) == <<Signed(b[21] + 256 * b[22], 16), b[35] + 256 * b[36]>>

SupportedEncodings == {<<1, 8>>, <<1, 16>>, <<1, 24>>, <<1, 32>>, <<3, 32>>}

\* C12: WavPlayer::new returns, for every blob, exactly one of InvalidFile
\* (blob shorter than 36 bytes, magic missing, or no data chunk header in
\* the blob), MalformedData (the data chunk declares more bytes than the
\* blob holds), UnknownFormat (encoding not one of the five supported) or a
\* player, the conditions taken in this order; it never panics.
C12_ExactlyOneOutcome ==
    w_result /= "none" =>
        /\ w_result \in {"Ok", "InvalidFile", "MalformedData", "UnknownFormat"}
        /\ w_result = "InvalidFile" <=> BlobInvalid(w_blob)
        /\ w_result = "MalformedData" <=> (~BlobInvalid(w_blob) /\ BlobOverrun(w_blob))
        /\ w_result = "UnknownFormat" <=>
              (/\ ~BlobInvalid(w_blob)
               /\ ~BlobOverrun(w_blob)
               /\ BlobEncoding(w_blob) \notin SupportedEncodings)
        /\ w_result = "Ok" <=>
              (/\ ~BlobInvalid(w_blob)
               /\ ~BlobOverrun(w_blob)
               /\ BlobEncoding(w_blob) \in SupportedEncodings)

\* C12's case: a blob whose data chunk, found behind another chunk, fits,
\* but whose encoding is outside the supported five, was rejected with
\* UnknownFormat.
C12_Witness ==
    /\ w_result = "UnknownFormat"
    /\ FindData(w_blob, 36).data_start > 44
    /\ BlobEncoding(w_blob) = <<0 - 2, 32>>

\* The canonical scaling of a format: the denominator its integer samples
\* are divided by (0 for float samples, which are taken over as they are).
CanonicalDen(fmt) ==
    CASE fmt = "U8"  -> 127
      [] fmt = "I16" -> 32767
      [] fmt = "I24" -> 2 ^ 23
      [] fmt = "I32" -> (2 ^ 30 - 1) + 2 ^ 30
      [] fmt = "F32" -> 0

\* Every sample delivered so far of the formats in `fmts` is the encoded
\* signal's sample, scaled canonically.
DecodesSignal(fmts) ==
    (w_result = "Ok" /\ format \in fmts) =>
        \A k \in DOMAIN w_out :
            k <= Len(w_signal) => w_out[k] = Quot(w_signal[k], CanonicalDen(format))

\* C13: for every supported encoding each delivered sample is the signed
\* value its bytes encode (u8: the byte less 0x80), divided by 127, 32767,
\* 2^23 or 2^31 - 1 according to the width; negative samples included.
C13_CanonicalScaling == DecodesSignal({"U8", "I16", "I24", "I32", "F32"})

\* What holds of C13: all formats but the 24-bit one decode canonically.
C13_AllButI24 == DecodesSignal({"U8", "I16", "I32", "F32"})

\* The data chunk of the blob given to new: where it starts, how many whole
\* samples it declares, and its k-th sample in file order.
DataStart == FindData(w_blob, 36).data_start

DataSamples == FindData(w_blob, 36).data_len \div sample_bytes

DataSample(k) ==
    Decode(format, SubSeq(w_blob, DataStart + (k - 1) * sample_bytes + 1,
                          DataStart + k * sample_bytes))

\* C14: what a WavPlayer has written so far is a prefix of the data chunk's
\* samples in file order; each call returns min(buffer.len(), samples
\* remaining); a short return comes exactly when all data_len div
\* sample_bytes samples are out, and every later call returns 0.
C14_PrefixInOrder ==
    w_result = "Ok" =>
        /\ Len(w_out) <= DataSamples
        /\ \A k \in DOMAIN w_out : w_out[k] = DataSample(k)
        /\ w_ret /= NoRet =>
              /\ w_ret = Min(w_req, DataSamples - (Len(w_out) - w_ret))
              /\ w_ret < w_req => Len(w_out) = DataSamples
        /\ w_short => w_ret = 0

\* C14's case: a file with a chunk before the data and bytes after it has
\* delivered its three or more samples over several calls, and a call
\* after the short one returned 0.
C14_Witness ==
    /\ w_result = "Ok" /\ w_short /\ w_ret = 0 /\ w_req > 0
    /\ Len(w_out) = DataSamples /\ DataSamples >= 3
    /\ DataStart > 44
    /\ Len(w_blob) > Len(file)

\* C15: when the configuration chosen has an integer sample format,
\* OutputStream::new returns Err(DeviceNotUsable); no stream is built or
\* started, and no unimplemented callback is installed or invoked.
C15_IntegerFormatRejected ==
    (o_result /= "none" /\ o_format \in {"I16", "U16"}) =>
        /\ o_result = "DeviceNotUsable"
        /\ o_installed = "none"
        /\ ~o_playing
        /\ ~o_todo

\* The channel count the header of the blob given to new declares.
HeaderChannels == w_blob[23] + 256 * w_blob[24]

\* What holds of C16: a WavPlayer's channel_count() is what the file's
\* header declares, whatever has been pulled; a Resampler's is its child's.
C16_Constant ==
    /\ w_result = "Ok" => WavPlayer_channel_count = HeaderChannels
    /\ r_state = "built" => Resampler_channel_count = r_arg.ch

\* C16: every Source handed out reports a channel count of at least 1 that
\* never changes: the WavPlayer of any accepted file, a Resampler, the
\* Mixer.
C16_ChannelCountPositive ==
    /\ C16_Constant
    /\ w_result = "Ok" => WavPlayer_channel_count >= 1
    /\ r_state = "built" => Resampler_channel_count >= 1
    /\ channels >= 1

\* The scratch buffer as the child of call c left it, and the buffer after
\* the closure (mixer.rs:41-52) has mixed the calls cs, in their order, into
\* buf.
CallInput(c) ==
    Tuple([i \in 1..c.req |-> IF i <= c.count THEN Sample(c.id, c.start + i - 1) ELSE 0])

RECURSIVE MixCalls(_, _)
MixCalls(cs, buf) ==
    IF cs = <<>> THEN buf
    ELSE MixCalls(Tail(cs),
                  IF Head(cs).ch = channels
                  THEN PassThrough(buf, CallInput(Head(cs)), Head(cs).count)
                  ELSE Duplicate(buf, CallInput(Head(cs)), Head(cs).count, channels))

\* The orders a list of n children can be inserted in.
Orders(n) == {p \in [1..n -> 1..n] : \A i, j \in 1..n : p[i] = p[j] => i = j}

\* C17: the output of a pull does not depend on the order the children were
\* inserted in: the same children (each of 1 or C_out channels, at the same
\* cursors) mixed in any other order give the same buffer.
C17_OrderIndependent ==
    PullReturned =>
        \A p \in Orders(Len(calls)) :
            MixCalls(Tuple([i \in 1..Len(calls) |-> calls[p[i]]]), Zeroed(buffer)) = buffer

\* A step of write_samples: add_source, the Mixer's only other operation,
\* is counted in `added`.
PullStep == added' = added

\* C18: a pull of N output frames that returns has called write_samples
\* exactly once on each child that was in the list when it began, in list
\* order, with a scratch buffer of N x C_in samples; every child it keeps
\* has advanced by N frames.
C18_OneCallOfNFrames ==
    [][(PullStep /\ ret' /= NoRet) =>
          /\ Len(calls') = Len(sources)
          /\ \A i \in DOMAIN sources :
                /\ calls'[i].id = sources[i].id
                /\ calls'[i].ch = sources[i].ch
                /\ calls'[i].req = (Len(buffer') \div channels) * sources[i].ch
                /\ sources[i].id \in Ids(sources') =>
                      calls'[i].count = (Len(buffer') \div channels) * sources[i].ch]_vars

\* C18's case: a pull of two frames returned after calling a 1-channel
\* child for 2 samples and a 2-channel child for 4.
C18_Witness ==
    /\ PullReturned /\ Len(buffer) = 2 * channels
    /\ \E i, j \in DOMAIN calls :
          /\ calls[i].ch = 1 /\ calls[i].req = 2
          /\ calls[j].ch = 2 /\ calls[j].req = 4

\* The ids of a list of children in list order, and the ids of the calls
\* whose child filled its request (for which the closure returned true).
IdSeq(list) == Tuple([i \in DOMAIN list |-> list[i].id])

RECURSIVE KeptIds(_)
KeptIds(cs) ==
    IF cs = <<>> THEN <<>>
    ELSE (IF Head(cs).count = Head(cs).req THEN <<Head(cs).id>> ELSE <<>>) \o KeptIds(Tail(cs))

\* C19: the prune pass of a pull that returns visits every child once in
\* insertion order and leaves exactly the children for which the closure
\* returned true, each once, in their original relative order; the list is
\* as it was when no child underfilled.
C19_StablePrune ==
    [][(PullStep /\ ret' /= NoRet) =>
          /\ IdSeq(calls') = IdSeq(sources)
          /\ IdSeq(sources') = KeptIds(calls')
          /\ (\A i \in DOMAIN calls' : calls'[i].count = calls'[i].req) =>
                IdSeq(sources') = IdSeq(sources)]_vars

\* C19's case: of three children visited the first underfilled, and the
\* two behind it were moved down and kept.
C19_Witness ==
    /\ PullReturned /\ Len(calls) = 3 /\ ShortCalls = {1}
    /\ IdSeq(sources) = <<calls[2].id, calls[3].id>>

\* C20: no Mixer operation fails: write_samples returns for every list of
\* children, one with a child of neither 1 nor C_out channels included, and
\* such a child leaves the pull's output as the other children mixed it.
C20_NoMixerFailure ==
    /\ ~panicked
    /\ \A i \in DOMAIN calls : PullReturned
    /\ PullReturned =>
          \A p \in DOMAIN buffer : \A i \in DOMAIN calls :
              calls[i].ch \notin {1, channels} => Digit(buffer[p], calls[i].id) = 0

\* A Resampler as new returned it, before any pull; what the two pre-fill
\* reads of its child returned (the second is not made after a short first).
JustBuilt == r_state = "built" /\ r_req = NoRet

FirstRead == Min(buffer_size, source.len)

SecondRead == Min(buffer_size, source.len - buffer_size)

\* What holds of C21: the marker after two full reads and after a short
\* first read.
C21_FirstReadCases ==
    JustBuilt =>
        /\ FirstRead < buffer_size => (last_sample = FirstRead /\ r_child_calls = 1)
        /\ (FirstRead = buffer_size /\ SecondRead = buffer_size) => last_sample = NoRet

\* C21: after Resampler::new, last_sample is unset if both pre-fill reads
\* were full, k if the first returned k < buffer_size (the second buffer is
\* then not read), and buffer_size + k if the first was full and the second
\* returned k < buffer_size.
C21_PrefillMarker ==
    /\ C21_FirstReadCases
    /\ (JustBuilt /\ FirstRead = buffer_size /\ SecondRead < buffer_size) =>
          last_sample = buffer_size + SecondRead

\* The refills made so far: the child's calls beyond the two of the
\* pre-fill.
Refills == IF r_child_calls > 2 THEN r_child_calls - 2 ELSE 0

\* Filter buffer f holds the child's samples from index `first` on, in
\* stream order, as far as the child has samples.
HoldsFrom(f, first) ==
    \A i \in DOMAIN f : first + i - 1 < source.len => f[i] = first + i - 1

\* C22: with R refills made, input_offset = R x buffer_size, filter_1 holds
\* the child's samples [input_offset, input_offset + buffer_size) and
\* filter_2 the buffer_size samples after them, up to the child's end; a
\* refill that read k < buffer_size samples has set last_sample to
\* buffer_size + k.
C22_WindowInvariant ==
    r_state = "built" =>
        /\ input_offset = Refills * buffer_size
        /\ HoldsFrom(filter_1, input_offset)
        /\ HoldsFrom(filter_2, input_offset + buffer_size)
        /\ (Refills > 0 /\ last_sample /= NoRet) =>
              last_sample = buffer_size + (source.len - (input_offset + buffer_size))
        /\ (Refills > 0 /\ last_sample = NoRet) => source.pos = input_offset + 2 * buffer_size

\* C22's case: a two-channel Resampler has refilled twice, the second read
\* returning some samples but not a whole buffer.
C22_Witness ==
    /\ r_state = "built" /\ source.ch = 2 /\ Refills = 2
    /\ last_sample > buffer_size
    /\ last_sample < 2 * buffer_size

\* The child's end has been seen: last_sample is set.
MarkerSet == r_state = "built" /\ last_sample /= NoRet

\* The child has been called exactly until its first short read: once per
\* whole buffer it could fill and once more.
CallsUntilShort == r_child_calls = (source.len \div buffer_size) + 1

\* C23: once last_sample is set it is never unset or changed, and the
\* child's write_samples is never called again: the marker is set by the
\* child's first short read, and no step from a state with the marker set
\* changes the marker, the child or the count of its calls.
C23_MarkerFinal ==
    /\ [](MarkerSet => CallsUntilShort)
    /\ [][MarkerSet => (last_sample' = last_sample /\ r_child_calls' = r_child_calls
                        /\ source' = source)]_vars

\* C23's case: the marker was set by a refill, a pull came back short and
\* another pull was made after it.
C23_Witness == MarkerSet /\ Refills > 0 /\ r_short /\ r_ret = 0 /\ r_req > 0

\* C24: for the reduced ratio (from, to) the filter table has exactly
\* FILTER_SIZE x to entries, left_offset is (FILTER_SIZE / 2) x to and each
\* of the two filter buffers holds exactly FILTER_SIZE x C samples, whatever
\* `from` is.
C24_FilterSizes ==
    r_state = "built" =>
        /\ kaiser_count = FILTER_SIZE * to
        /\ left_offset = (FILTER_SIZE \div 2) * to
        /\ Len(filter_1) = FILTER_SIZE * source.ch
        /\ Len(filter_2) = FILTER_SIZE * source.ch

\* What new does make of the sizes (resampler.rs:103-115): the table follows
\* the larger of from and to, the start is its middle, and a buffer has room
\* for one frame more than the taps one output sample can use.
C24_SizesFollowLargerRate ==
    r_state = "built" =>
        /\ kaiser_count = kaiser_order(Max(from, to)) + 1
        /\ left_offset = kaiser_count \div 2
        /\ Len(filter_1) = buffer_size /\ Len(filter_2) = buffer_size
        /\ buffer_size = ((kaiser_count \div to) + 1) * source.ch
        /\ (from = 3 /\ to = 1) => kaiser_count = 240
        /\ (from = 1 /\ to = 1) => kaiser_count = 81

\* The n-th output sample of the Resampler, for the i-th sample the last
\* pull wrote.
OutputIndex(i) == r_out[i].output_count

\* The terms of the i-th sample the last pull wrote, as the code adds them.
Written(i) == Convolve(r_out[i], source.ch)

\* The child samples the i-th written sample's sum read.
ReadOf(i) == UNION {{w[k][1] : k \in 1..Len(w)} : w \in {Written(i)}}

\* The sum the n-th output sample is to be: with c = n mod C, f = n div C
\* and start = left_offset + from x f, the terms child_sample[channel c of
\* input frame (start div to) - j] x table[(start mod to) + j x to] for
\* j = 0, 1, ... while the input frame is not negative and the table entry
\* exists.
Polyphase(n) ==
    LET c     == n % source.ch
        start == left_offset + from * (n \div source.ch)
        first == start \div to
        taps  == (kaiser_count - (start % to) + to - 1) \div to
    IN  Tuple([k \in 1..Min(first + 1, taps) |->
                <<(first - (k - 1)) * source.ch + c, (start % to) + (k - 1) * to>>])

\* The samples of the last pull that are looked at: its first frame and its
\* last one.  Pulls of one frame are made from every position, so every
\* output sample is in the first frame of some pull.
Looked == {i \in 1..Len(r_out) : i <= source.ch \/ i > Len(r_out) - source.ch}

\* C25: the n-th output sample is the polyphase sum over the child's samples
\* of its channel, whichever of the two code paths makes it: walking
\* filter_1 alone, or filter_2 and then filter_1 from its end, reads the
\* same child samples against the same table entries, with no gap or repeat
\* where the walk crosses from filter_2 into filter_1.
C25_PolyphaseSum ==
    r_state \in {"built", "pull_panicked"} =>
        \A i \in Looked : Written(i) = Polyphase(OutputIndex(i))

\* C25's case: a two-channel pull after a refill whose first sample is
\* channel 0, has its start in filter_2 and its sum crossing into filter_1.
C25_Witness ==
    /\ r_state = "built" /\ source.ch = 2 /\ Refills > 0 /\ r_out /= <<>>
    /\ OutputIndex(1) % 2 = 0
    /\ ConvolveBranch(r_out[1]) = "both"
    /\ \E s \in ReadOf(1) : s < r_out[1].filter_2[1]

\* The child is a unit impulse when its sample 0 is 1 and the others are 0:
\* the i-th written sample is then the sum of the table entries its terms
\* pair with child sample 0.
ImpulseTaps(i) ==
    UNION {{w[k][2] : k \in {k \in 1..Len(w) : w[k][1] = 0}} : w \in {Written(i)}}

\* Doubling the rate of a one-channel child.
MonoDoubling == r_state = "built" /\ source.ch = 1 /\ from = 1 /\ to = 2

\* C26: doubling the rate of a one-channel unit impulse yields, after a
\* delay of left_offset / to output frames, the whole table in order:
\* output sample left_offset / to + m is table entry m, for every entry m.
C26_WholeKernel ==
    MonoDoubling =>
        \A i \in Looked :
            LET m == OutputIndex(i) - (left_offset \div to)
            IN  (m >= 0 /\ m < kaiser_count) => ImpulseTaps(i) = {m}

\* What the impulse does yield: output sample n is table entry
\* left_offset + n, so the output starts at the table's middle with no
\* delay, runs through its second half and is zero from then on; the
\* entries below left_offset never appear.
C26_SecondHalfOnly ==
    MonoDoubling =>
        \A i \in Looked :
            ImpulseTaps(i) = IF left_offset + OutputIndex(i) < kaiser_count
                             THEN {left_offset + OutputIndex(i)} ELSE {}

\* C29: the sum never reads a filter position the child did not write: it
\* starts below last_sample when that is set, and every position it reads
\* holds a sample the child wrote into the present window (neither a
\* position never written nor one left over from an earlier window).
C29_OnlyWrittenRead ==
    r_state \in {"built", "pull_panicked"} =>
        \A i \in Looked :
            /\ r_out[i].last_sample /= NoRet => r_out[i].sample_index < r_out[i].last_sample
            /\ \A s \in ReadOf(i) : s /= Uninit /\ s >= r_out[i].input_offset /\ s < source.len

\* C29's cases: a sum over the last frame a short refill wrote into
\* filter_2, whose tail is left over from an earlier window; and a sum
\* taken after a short first pre-fill read, filter_2 never written.
C29_Witness ==
    /\ r_state = "built" /\ Refills > 0 /\ r_out /= <<>>
    /\ r_out[1].last_sample /= NoRet
    /\ r_out[1].last_sample > r_out[1].buffer_size
    /\ r_out[1].last_sample < 2 * r_out[1].buffer_size
    /\ r_out[1].sample_index + source.ch >= r_out[1].last_sample

C29_WitnessUnfilled ==
    /\ r_state = "built" /\ r_child_calls = 1 /\ r_out /= <<>>
    /\ filter_2[1] = Uninit
    /\ r_out[Len(r_out)].sample_index + source.ch >= last_sample

\* new has looked at a blob that has the magic: the walk over its chunks
\* was made.
Scanned == w_result /= "none" /\ ~NotWav(w_blob)

\* The walk new made over the blob it was given.
Scan == FindData(w_blob, 36)

\* The tag and the declared length of the chunk header at offset p.
TagAt(p) == Slice(w_blob, p, p + 4)

DeclaredAt(p) == u32_from_le_bytes(Slice(w_blob, p + 4, p + 8))

\* C27: the walk over the chunks starts at byte 36, takes the first chunk
\* tagged "data" as the data chunk, steps over every other chunk by exactly
\* 8 + its declared length, ends after at most one header per 8 bytes of the
\* blob, answers InvalidFile as soon as fewer than 8 bytes remain at the
\* place it has come to, and reads no byte outside the blob.
C27_ChunkScan ==
    Scanned =>
        \A r \in {Scan} :
            /\ Len(r.visited) <= (Len(w_blob) - 36) \div 8
            /\ r.visited /= <<>> => r.visited[1] = 36
            /\ \A i \in 1..Len(r.visited) : r.visited[i] + 8 <= Len(w_blob)
            /\ \A i \in 1..(Len(r.visited) - 1) :
                /\ TagAt(r.visited[i]) /= Ascii("data")
                /\ r.visited[i + 1] = r.visited[i] + 8 + DeclaredAt(r.visited[i])
            /\ r.found =>
                /\ w_result /= "InvalidFile"
                /\ TagAt(r.visited[Len(r.visited)]) = Ascii("data")
                /\ r.data_start = r.visited[Len(r.visited)] + 8
                /\ r.data_len = DeclaredAt(r.visited[Len(r.visited)])
                /\ (w_result = "Ok" /\ w_req = NoRet) => next_sample_offset = r.data_start
            /\ ~r.found =>
                /\ w_result = "InvalidFile"
                /\ IF r.visited = <<>> THEN Len(w_blob) < 36 + 8
                   ELSE /\ TagAt(r.visited[Len(r.visited)]) /= Ascii("data")
                        /\ Len(w_blob) < r.visited[Len(r.visited)] + 8
                                            + DeclaredAt(r.visited[Len(r.visited)]) + 8

\* C27's cases: the data chunk found behind two other chunks; and the walk
\* given up after a chunk that declares more than the blob has.
C27_Witness == Scanned /\ w_result = "Ok" /\ Len(Scan.visited) = 3

C27_WitnessInvalid == Scanned /\ w_result = "InvalidFile" /\ Len(Scan.visited) = 2

\* The callback has met a source whose channel count is neither one nor the
\* device's, and has unwound.
CallbackFailed == cb.pc = "panicked"

\* C28: a failure on the audio thread does not propagate: after a callback
\* that met a source of an unsupported channel count, a later add_source
\* still takes the lock, appends its source and returns; no add_source
\* fails.
C28_AddSurvivesCallbackFailure ==
    CallbackFailed => \A c \in Clients : client[c].pc /= "panicked"

\* What does hold once the callback has failed: the mutex is poisoned and
\* free, and no add_source gets past its lock() again to append anything.
C28_PoisonedForGood ==
    CallbackFailed =>
        /\ poisoned /\ ~locked
        /\ \A c \in Clients : client[c].pc \in {"idle", "lock", "panicked"}

\* The child's length is a whole number of frames, so its short write is
\* one too (the filter buffers are whole frames).
ChildFrameAligned == source.len % source.ch = 0

\* C30: pulled with buffers of whole frames over a child whose short write
\* is a whole number of frames, write_samples returns a whole number of
\* frames every time (it stops on channel 0 only), and output_count is the
\* sum of all values returned: it is 0 after new and grows by the value
\* returned with every pull.
C30_FrameAligned ==
    /\ [](JustBuilt => output_count = 0)
    /\ [][r_state = "built" =>
            /\ r_state' = "built"
            /\ output_count' = output_count + r_ret'
            /\ (ChildFrameAligned /\ r_req' % source.ch = 0) => r_ret' % source.ch = 0]_vars

\* C30's case: a pull over two channels came back short, having written
\* some frames before the child's end, which a refill had found.
C30_Witness ==
    /\ MarkerSet /\ Refills > 0 /\ source.ch = 2 /\ ChildFrameAligned
    /\ r_ret > 0 /\ r_ret < r_req /\ r_ret % 2 = 0

=============================================================================
